---- MODULE Spec2Model ----
(***************************************************************************)
(* Model of onetl's FileDownloader (onetl/core/file_downloader/            *)
(* file_downloader.py): run() with its precondition checks, the candidate  *)
(* resolution (_validate_files, view_files), the per-file transfer         *)
(* protocol (_download_file) and the watermark (FileHWM) handling.         *)
(*                                                                         *)
(* The file connection, the local filesystem and the HWM store are the     *)
(* environment: every call into them that can raise is a nondeterministic  *)
(* choice between its normal effect and an exception.                      *)
(***************************************************************************)
EXTENDS Naturals, Integers, Sequences, FiniteSets, TLC

\* Longest explicit file list passed to run().
MaxList == 2

----------------------------------------------------------------------------
(* Path model: RemotePath / LocalPath as a namespace tag, an absolute flag  *)
(* and the sequence of path components.                                     *)

RemotePath(abs, parts) == [ns |-> "remote", abs |-> abs, parts |-> parts]
LocalPath(parts) == [ns |-> "local", abs |-> TRUE, parts |-> parts]
NoPath == [ns |-> "none", abs |-> FALSE, parts |-> << >>]

\* PurePath.is_absolute()
IsAbsolute(p) == p.abs

\* PurePath.name: the last component
Name(p) == <<p.parts[Len(p.parts)]>>

\* PurePath.parents: the proper ancestors of p
Parents(p) ==
  {[ns |-> p.ns, abs |-> p.abs, parts |-> SubSeq(p.parts, 1, n)] :
      n \in 0..(Len(p.parts) - 1)}

\* PurePath.relative_to(base), defined when base is p or an ancestor of p
RelativeTo(p, base) == SubSeq(p.parts, Len(base.parts) + 1, Len(p.parts))

\* base / rel
Join(base, rel) == [base EXCEPT !.parts = base.parts \o rel]

----------------------------------------------------------------------------
(* The universe of the model.                                               *)

SourceRoot == RemotePath(TRUE, <<"remote">>)
LocalRoot == LocalPath(<<"local">>)
\* a staging directory on the mount of LocalRoot, and one on another mount
TempSameMount == LocalPath(<<"stage">>)
TempOtherMount == LocalPath(<<"mnt", "stage">>)
Mount(p) == IF p.parts # << >> /\ p.parts[1] = "mnt" THEN "mnt" ELSE "root"

\* remote files: two under SourceRoot with the same name, one elsewhere
FileA == RemotePath(TRUE, <<"remote", "a">>)
FileB == RemotePath(TRUE, <<"remote", "sub", "a">>)
FileC == RemotePath(TRUE, <<"other", "a">>)
RemoteFiles == {FileA, FileB, FileC}

\* the spellings a caller may pass to run(files)
Spellings == {FileA, FileB, FileC, RemotePath(FALSE, <<"a">>)}

RECURSIVE SeqsUpTo(_, _)
\* sequences without repetition over S, of length at most n
SeqsUpTo(S, n) ==
  IF n = 0 THEN {<< >>}
  ELSE LET shorter == SeqsUpTo(S, n - 1)
       IN shorter \cup
          {Append(s, x) : s \in {t \in shorter : Len(t) = n - 1},
                          x \in S}

NoRepeat(s) == \A i, j \in 1..Len(s) : i # j => s[i] # s[j]

\* the orders in which the elements of S can be listed
Orderings(S) ==
  {s \in SeqsUpTo(S, Cardinality(S)) : Len(s) = Cardinality(S) /\ NoRepeat(s)}

\* run(files): None, or an iterable of paths
NoFiles == <<NoPath>>
FileLists == {s \in SeqsUpTo(Spellings, MaxList) : NoRepeat(s)}

\* FileWriteMode
Modes == {"error", "ignore", "overwrite", "delete_all"}

\* The strategies StrategyManager.get_current() may return: snapshot,
\* incremental (with or without offset), incremental batch.
SnapshotStrategy == [hwm |-> FALSE, batch |-> FALSE, offset |-> FALSE]
IncrementalStrategy == [hwm |-> TRUE, batch |-> FALSE, offset |-> FALSE]
IncrementalOffsetStrategy == [hwm |-> TRUE, batch |-> FALSE, offset |-> TRUE]
IncrementalBatchStrategy == [hwm |-> TRUE, batch |-> TRUE, offset |-> FALSE]
Strategies == {SnapshotStrategy, IncrementalStrategy,
               IncrementalOffsetStrategy, IncrementalBatchStrategy}

\* File contents on the local filesystem
Absent == [kind |-> "absent", of |-> NoPath]
Old == [kind |-> "old", of |-> NoPath]
Partial == [kind |-> "partial", of |-> NoPath]
CopyOf(f) == [kind |-> "copy", of |-> f]

\* FileDownloader's fields. hwm_type requires source_path (check_hwm_type).
Configs ==
  {c \in [source_path : {NoPath, SourceRoot},
          local_path : {LocalRoot},
          temp_path : {NoPath, TempSameMount, TempOtherMount},
          hwm_type : BOOLEAN,
          mode : Modes,
          delete_source : BOOLEAN] :
      c.hwm_type => c.source_path # NoPath}

\* A watermark value: FileListHWM holds the set of files it covers. The store
\* may hold nothing for a name, or an HWM of another class.
NoHWM == [type |-> "none", value |-> {}]
FileHWM(v) == [type |-> "FileHWM", value |-> v]
OtherHWM == [type |-> "OtherHWM", value |-> {}]

\* An exception leaving run(): its class and the check that raised it
NoError == [kind |-> "none", site |-> "none"]
Error(kind, site) == [kind |-> kind, site |-> site]

\* DownloadResult()
EmptyResult == [successful |-> {}, failed |-> {}, skipped |-> {}, missing |-> {}]

----------------------------------------------------------------------------
VARIABLES
  cfg,          \* the FileDownloader object (frozen)
  strategy,     \* StrategyManager.get_current(), as read by _check_strategy
  files,        \* run()'s argument / local variable `files`
  remoteRoot,   \* what SourceRoot is on the connection: "dir", "file", "absent"
  remote,       \* remote file -> TRUE iff it exists on the connection
  localRoot,    \* what local_path is: "dir", "file", "absent"
  localfs,      \* local file path -> content (destination and staging files)
  store,        \* the HWM store's value for this downloader's qualified name
  file_hwm,     \* the FileHWM object held by _download_files
  to_download,  \* the (source, target, temp) triples of _validate_files
  idx,          \* position of the per-file loop in to_download
  replace,      \* local variable of _download_file
  result,       \* the DownloadResult being built
  pc,           \* where run() is
  err,          \* the exception run() raised
  local0,       \* history: localfs when run() was called
  store0,       \* history: store when run() was called
  outcome,      \* history: bucket of each processed candidate
  delivered,    \* history: candidates whose content reached the target path
  saveLog,      \* history: the calls of hwm_store.save, in order
  getCalls,     \* history: number of calls of hwm_store.get
  io,           \* history: what run() has touched so far
  prev,         \* history: how the run before the current one ended
  other,        \* a concurrent run of a downloader with the same HWM name
  reader,       \* a DBReader: the `columns` it was given and the one it keeps
  target_dir    \* a FileWriter's target_path: its files, and the runs so far

\* what no step of run() touches
apart == <<other, reader, target_dir>>

runs == <<prev, apart>>

vars == <<cfg, runs, strategy, files, remoteRoot, remote, localRoot, localfs, store,
          file_hwm, to_download, idx, replace, result, pc, err, local0,
          store0, outcome, delivered, saveLog, getCalls, io>>

world == <<remoteRoot, remote, localRoot, localfs, store>>
history == <<local0, store0, outcome, delivered, saveLog, getCalls, io>>
loopvars == <<to_download, idx, replace, result, file_hwm>>

\* _internal.generate_temp_path: a directory of this run under temp_path
generate_temp_path(temp_path) == Join(temp_path, <<"run">>)

\* the local files of the model: targets under local_path, and staging files
TargetFiles == {Join(LocalRoot, <<"a">>), Join(LocalRoot, <<"sub", "a">>)}
StagingFiles(c) ==
  IF c.temp_path = NoPath THEN {}
  ELSE {Join(generate_temp_path(c.temp_path), <<"a">>),
        Join(generate_temp_path(c.temp_path), <<"sub", "a">>)}

NoStrategy == [hwm |-> FALSE, batch |-> FALSE, offset |-> FALSE, unread |-> TRUE]

\* no run before the current one
NoRun == [pc |-> "none", sources |-> {}, ended |-> "none", walked |-> FALSE]

\* the concurrent run has not started: where it is, the FileHWM object it
\* holds, the files it has recorded in successful, and how its lifetime lies
\* to that of the run followed in detail
NoOther == [pc |-> "idle", hwm |-> [type |-> "none", value |-> {}],
            successful |-> {}, first |-> FALSE, overlap |-> FALSE]

\* target_path does not exist and no FileWriter has run
NoTarget == [exists |-> FALSE, files |-> {}, runs |-> << >>, raised |-> FALSE]

\* no DBReader has been constructed
NoReader == [calls |-> 0, arg |-> [type |-> "str", items |-> << >>],
             columns |-> << >>, before |-> << >>]

\* a FileDownloader and its surroundings at the call of run(), for any
\* content of the HWM store under the downloader's qualified name
InitAnyStore ==
  /\ cfg \in Configs
  /\ strategy = NoStrategy
  /\ files = NoFiles
  \* SourceRoot is broken only for a downloader that names it
  /\ remoteRoot \in (IF cfg.source_path = NoPath THEN {"dir"}
                     ELSE {"dir", "file", "absent"})
  /\ remote \in [RemoteFiles -> BOOLEAN]
  /\ remote[FileC]
  /\ remoteRoot # "dir" => ~remote[FileA] /\ ~remote[FileB]
  /\ localRoot \in {"dir", "file", "absent"}
  /\ localfs \in [TargetFiles \cup StagingFiles(cfg) -> {Absent, Old}]
  /\ \A p \in StagingFiles(cfg) : localfs[p] = Absent
  /\ localRoot # "dir" => \A p \in TargetFiles : localfs[p] = Absent
  /\ store \in {NoHWM, FileHWM({FileA}), OtherHWM}
  /\ file_hwm = NoHWM
  /\ to_download = << >>
  /\ idx = 0
  /\ replace = FALSE
  /\ result = EmptyResult
  /\ pc = "idle"
  /\ err = NoError
  /\ local0 = localfs
  /\ store0 = store
  /\ outcome = << >>
  /\ delivered = {}
  /\ saveLog = << >>
  /\ getCalls = 0
  /\ io = {}
  /\ prev = NoRun
  /\ other = NoOther
  /\ reader = NoReader
  /\ target_dir = NoTarget

\* the store holds something only for a downloader with hwm_type
Init ==
  /\ InitAnyStore
  /\ ~cfg.hwm_type => store = NoHWM

Raise(kind, site) ==
  /\ pc' = "raised"
  /\ err' = Error(kind, site)

----------------------------------------------------------------------------
(* run(): the checks before any transfer                                    *)

hist_but_io == <<local0, store0, outcome, delivered, saveLog, getCalls>>

\* run() is called; _check_strategy reads the current strategy
Run ==
  /\ pc = "idle"
  /\ \E s \in Strategies : strategy' = s
  /\ pc' = "check_strategy"
  /\ UNCHANGED <<cfg, runs, files, world, loopvars, err, history>>

\* _check_strategy without its check of a batch strategy
StrategyErrorNoBatch(c, s) ==
  IF c.hwm_type
  THEN IF ~s.hwm THEN "ValueError"
       ELSE IF s.offset THEN "ValueError"
       ELSE "none"
  ELSE "none"

\* The error _check_strategy raises under strategy s, or "none"
StrategyError(c, s) ==
  IF c.hwm_type
  THEN IF ~s.hwm THEN "ValueError"
       ELSE IF s.offset THEN "ValueError"
       ELSE IF s.batch THEN "ValueError"
       ELSE "none"
  ELSE "none"

\* _check_strategy; when it passes, run() looks at its argument `files`
CheckStrategy ==
  /\ pc = "check_strategy"
  /\ IF StrategyError(cfg, strategy) # "none"
     THEN /\ Raise(StrategyError(cfg, strategy), "strategy")
          /\ UNCHANGED files
     ELSE /\ \E fl \in FileLists \cup {NoFiles} : files' = fl
          /\ pc' = "check_files"
          /\ UNCHANGED err
  /\ UNCHANGED <<cfg, runs, strategy, world, loopvars, history>>

\* the check looks at source_path alone
FilesErrorNoList(c, fl) ==
  IF c.source_path = NoPath THEN "ValueError" ELSE "none"

\* The error of `if files is None and not self.source_path`, or "none"
FilesError(c, fl) ==
  IF fl = NoFiles /\ c.source_path = NoPath THEN "ValueError" ELSE "none"

CheckFiles ==
  /\ pc = "check_files"
  /\ IF FilesError(cfg, files) # "none"
     THEN Raise(FilesError(cfg, files), "files")
     ELSE pc' = "check_local_path" /\ UNCHANGED err
  /\ UNCHANGED <<cfg, runs, strategy, files, world, loopvars, history>>

\* The error _check_local_path raises when local_path is `kind`, or "none"
LocalPathError(kind) ==
  IF kind # "absent" /\ kind # "dir" THEN "NotADirectoryError" ELSE "none"

\* _check_local_path: NotADirectoryError, or mkdir(exist_ok, parents)
CheckLocalPath ==
  /\ pc = "check_local_path"
  /\ io' = io \cup {"local_path"}
  /\ IF LocalPathError(localRoot) # "none"
     THEN /\ Raise(LocalPathError(localRoot), "local_path")
          /\ UNCHANGED localRoot
     ELSE /\ localRoot' = "dir"
          /\ pc' = "connection_check"
          /\ UNCHANGED err
  /\ UNCHANGED <<cfg, runs, strategy, files, remoteRoot, remote, localfs, store,
                 loopvars, hist_but_io>>

\* connection.check(): the environment decides whether the connection works
ConnectionCheck ==
  /\ pc = "connection_check"
  /\ io' = io \cup {"connection"}
  /\ \E ok \in BOOLEAN :
       IF ok
       THEN /\ pc' = IF cfg.source_path # NoPath THEN "check_source_path"
                     ELSE "resolve"
            /\ UNCHANGED err
       ELSE Raise("RuntimeError", "connection")
  /\ UNCHANGED <<cfg, runs, strategy, files, world, loopvars, hist_but_io>>

\* The error connection.get_directory raises for a path that is `kind`
GetDirectoryError(kind) ==
  CASE kind = "absent" -> "DirectoryNotFoundError"
    [] kind = "file" -> "NotADirectoryError"
    [] OTHER -> "none"

\* _check_source_path
CheckSourcePath ==
  /\ pc = "check_source_path"
  /\ io' = io \cup {"connection"}
  /\ IF GetDirectoryError(remoteRoot) # "none"
     THEN Raise(GetDirectoryError(remoteRoot), "source_path")
     ELSE pc' = "resolve" /\ UNCHANGED err
  /\ UNCHANGED <<cfg, runs, strategy, files, world, loopvars, hist_but_io>>

----------------------------------------------------------------------------
(* run(): candidate resolution                                              *)

\* the filter lets every file through
CoversNothing(hwm, f) == FALSE

\* FileHWM.covers(file)
Covers(hwm, f) == f \in hwm.value

\* every run starts from an empty HWM
GetHWMEmpty(st) == FileHWM({})

\* _get_hwm: the stored HWM, or an empty one of hwm_type
GetHWM(st) == IF st = NoHWM THEN FileHWM({}) ELSE st

\* _check_hwm_type: the error for an HWM of class `type`, or "none"
HWMTypeError(type) == IF type # "FileHWM" THEN "ValueError" ELSE "none"

\* the FileHWMFilter is applied whether hwm_type is set or not
WalkAlwaysFiltered(c, hwm) ==
  {f \in RemoteFiles :
     /\ remote[f]
     /\ c.source_path \in Parents(f)
     /\ ~Covers(hwm, f)}

\* the files connection.walk(source_path, filters) yields: the existing
\* files below source_path that the FileHWMFilter lets through
Walk(c, hwm) ==
  {f \in RemoteFiles :
     /\ remote[f]
     /\ c.source_path \in Parents(f)
     /\ c.hwm_type => ~Covers(hwm, f)}

\* `if not files`: an empty list counts as no list
IsNoneOrEmpty(fl) == fl = NoFiles \/ fl = << >>

\* `if files is None`
IsNone(fl) == fl = NoFiles

\* view_files(), called by run() when no file list was passed
ViewFiles ==
  /\ pc = "resolve"
  /\ IsNone(files)
  /\ io' = io \cup {"connection", "walk"}
             \cup (IF cfg.hwm_type THEN {"store"} ELSE {})
  /\ getCalls' = IF cfg.hwm_type THEN getCalls + 1 ELSE getCalls
  /\ IF cfg.hwm_type /\ HWMTypeError(GetHWM(store).type) # "none"
     THEN /\ Raise(HWMTypeError(GetHWM(store).type), "get_hwm")
          /\ UNCHANGED files
     ELSE \E ok \in BOOLEAN :
            IF ok
            THEN /\ \E fl \in Orderings(Walk(cfg, GetHWM(store))) :
                      files' = fl
                 /\ pc' = "validate"
                 /\ UNCHANGED err
            ELSE /\ Raise("RuntimeError", "view_files")
                 /\ UNCHANGED files
  /\ UNCHANGED <<cfg, runs, strategy, world, loopvars, local0, store0, outcome,
                 delivered, saveLog>>

\* every accepted file goes to local_path / its name
ValidateFileFlat(c, current_temp_dir, file) ==
  IF ~IsAbsolute(file) /\ c.source_path = NoPath
  THEN [error |-> "ValueError"]
  ELSE IF IsAbsolute(file) /\ c.source_path # NoPath
          /\ c.source_path \notin Parents(file)
  THEN [error |-> "ValueError"]
  ELSE [error |-> "none",
        source |-> IF IsAbsolute(file) THEN file
                   ELSE Join(c.source_path, file.parts),
        target |-> Join(c.local_path, Name(file)),
        temp |-> IF current_temp_dir # NoPath
                 THEN Join(current_temp_dir, Name(file)) ELSE NoPath]

\* One pass of the loop of _validate_files: the (source, target, temp)
\* triple of `file`, or the error raised for it
ValidateFile(c, current_temp_dir, file) ==
  IF c.source_path = NoPath
  THEN IF ~IsAbsolute(file)
       THEN [error |-> "ValueError"]
       ELSE [error |-> "none",
             source |-> file,
             target |-> Join(c.local_path, Name(file)),
             temp |-> IF current_temp_dir # NoPath
                      THEN Join(current_temp_dir, Name(file)) ELSE NoPath]
  ELSE IF c.source_path \in Parents(file)
       THEN [error |-> "none",
             source |-> file,
             target |-> Join(c.local_path, RelativeTo(file, c.source_path)),
             temp |-> IF current_temp_dir # NoPath
                      THEN Join(current_temp_dir,
                                RelativeTo(file, c.source_path))
                      ELSE NoPath]
       ELSE IF ~IsAbsolute(file)
       THEN [error |-> "none",
             source |-> Join(c.source_path, file.parts),
             target |-> Join(c.local_path, file.parts),
             temp |-> IF current_temp_dir # NoPath
                      THEN Join(current_temp_dir, file.parts) ELSE NoPath]
       ELSE [error |-> "ValueError"]

RECURSIVE ValidateFrom(_, _, _, _, _)
\* _validate_files from position k on; `acc` is the OrderedSet built so far
ValidateFrom(c, current_temp_dir, fl, k, acc) ==
  IF k > Len(fl) THEN [error |-> "none", items |-> acc, looked |-> k - 1]
  ELSE LET item == ValidateFile(c, current_temp_dir, fl[k])
       IN IF item.error # "none"
          THEN [error |-> item.error, items |-> acc, looked |-> k - 1]
          ELSE ValidateFrom(c, current_temp_dir, fl, k + 1,
                            IF \E n \in 1..Len(acc) : acc[n] = item
                            THEN acc ELSE Append(acc, item))

\* the malformed paths are left out instead of raising
ValidateFilesLenient(c, fl) ==
  LET tmp == IF c.temp_path # NoPath THEN generate_temp_path(c.temp_path)
             ELSE NoPath
  IN ValidateFrom(c, tmp,
                  SelectSeq(fl, LAMBDA f :
                                  ValidateFile(c, tmp, f).error = "none"),
                  1, << >>)

\* _validate_files(files, current_temp_dir)
ValidateFiles(c, fl) ==
  ValidateFrom(c,
               IF c.temp_path # NoPath THEN generate_temp_path(c.temp_path)
               ELSE NoPath,
               fl, 1, << >>)

\* run() after the checks: `if not files: return DownloadResult()`, the
\* temp directory's name, _validate_files
Resolve ==
  /\ \/ pc = "resolve" /\ ~IsNone(files)
     \/ pc = "validate"
  /\ IF files = << >>
     THEN /\ pc' = "done"
          /\ UNCHANGED <<to_download, err, io, files>>
     ELSE LET v == ValidateFiles(cfg, files)
          IN /\ io' = IF v.looked > 0 THEN io \cup {"connection"} ELSE io
             /\ \E ok \in BOOLEAN :
                  IF ~ok /\ v.looked > 0
                  THEN \* path_exists or get_file raised for a file whose
                       \* shape was accepted
                       /\ Raise("ConnectionError", "validate_io")
                       /\ UNCHANGED <<to_download, files>>
                  ELSE IF v.error # "none"
                  THEN /\ Raise(v.error, "validate_files")
                       /\ UNCHANGED <<to_download, files>>
                  ELSE /\ to_download' = v.items
                       /\ files' = << >>
                       /\ pc' = IF cfg.mode = "delete_all" THEN "delete_all"
                                ELSE IF cfg.hwm_type THEN "hwm_processing"
                                ELSE "loop"
                       /\ UNCHANGED err
  \* the strategy is not read again: the model forgets it here
  /\ strategy' = IF pc' = "raised" THEN strategy ELSE NoStrategy
  /\ UNCHANGED <<cfg, runs, world, idx, replace, result, file_hwm, hist_but_io>>

----------------------------------------------------------------------------
(* run(): delete_all, _hwm_processing, the per-file loop                    *)

\* rmtree leaves the files where they are
RmtreeNothing(fs, dir) == fs

\* shutil.rmtree(dir): the filesystem without the files below dir
Rmtree(fs, dir) ==
  [p \in DOMAIN fs |-> IF dir \in Parents(p) THEN Absent ELSE fs[p]]

\* `if self.options.mode == FileWriteMode.DELETE_ALL`: rmtree and mkdir
DeleteAll ==
  /\ pc = "delete_all"
  /\ localfs' = Rmtree(localfs, cfg.local_path)
  /\ pc' = IF cfg.hwm_type THEN "hwm_processing" ELSE "loop"
  /\ UNCHANGED <<cfg, runs, strategy, files, remoteRoot, remote, localRoot, store,
                 loopvars, err, history>>

\* _hwm_processing: _get_hwm, then _download_files with the HWM
HwmProcessing ==
  /\ pc = "hwm_processing"
  /\ io' = io \cup {"store"}
  /\ getCalls' = getCalls + 1
  /\ IF HWMTypeError(GetHWM(store).type) # "none"
     THEN /\ Raise(HWMTypeError(GetHWM(store).type), "get_hwm")
          /\ UNCHANGED file_hwm
     ELSE /\ file_hwm' = GetHWM(store)
          /\ pc' = "loop"
          /\ UNCHANGED err
  /\ UNCHANGED <<cfg, runs, strategy, files, world, to_download, idx, replace,
                 result, local0, store0, outcome, delivered, saveLog>>

\* the candidate _download_file is working on
Current == to_download[idx + 1]

\* the download goes to the target even with a temp file
DownloadTargetDirect(item) == item.target

\* where connection.download_file writes: the temp file, or the target
DownloadTarget(item) == IF item.temp # NoPath THEN item.temp ELSE item.target

\* FailedRemoteFile(path, exception)
Failed(f, exception) == [path |-> f, exception |-> exception]

\* `except Exception as e`: the candidate goes to result.failed
Fail(exception) ==
  /\ result' = [result EXCEPT
                  !.failed = @ \cup {Failed(Current.source, exception)}]
  /\ outcome' = Append(outcome, "failed")
  /\ idx' = idx + 1
  /\ replace' = FALSE
  /\ pc' = "loop"

\* path_exists answers yes for every path
PathExistsAlways(f) == TRUE

\* connection.path_exists(source_file)
PathExists(f) == remote[f]

\* every conflict is resolved by replacing the existing file
OnConflictReplace(mode) == "replace"

\* every conflict is resolved by skipping the candidate
OnConflictSkip(mode) == "skipped"

\* what _download_file does with a candidate whose local_file exists
OnConflict(mode) ==
  IF mode = "error" THEN "failed"
  ELSE IF mode = "ignore" THEN "skipped"
  ELSE "replace"

\* _download_file up to the download: path_exists, get_file, the conflict
\* mode for an existing target
FileBegin ==
  /\ pc = "loop"
  /\ idx < Len(to_download)
  /\ IF ~PathExists(Current.source)
     THEN /\ result' = [result EXCEPT !.missing = @ \cup {Current.source}]
          /\ outcome' = Append(outcome, "missing")
          /\ idx' = idx + 1
          /\ UNCHANGED <<replace, pc, err>>
     ELSE \E ok \in BOOLEAN :
            IF ~ok
            THEN \* get_file raised: the handler reads the unbound remote_file
                 /\ Raise("UnboundLocalError", "download_file")
                 /\ UNCHANGED <<result, outcome, idx, replace>>
            ELSE IF localfs[Current.target] # Absent
            THEN IF OnConflict(cfg.mode) = "failed"
                 THEN Fail("FileExistsError") /\ UNCHANGED err
                 ELSE IF OnConflict(cfg.mode) = "skipped"
                 THEN /\ result' = [result EXCEPT
                                      !.skipped = @ \cup {Current.source}]
                      /\ outcome' = Append(outcome, "skipped")
                      /\ idx' = idx + 1
                      /\ UNCHANGED <<replace, pc, err>>
                 ELSE /\ replace' = TRUE
                      /\ pc' = "download"
                      /\ UNCHANGED <<result, outcome, idx, err>>
            ELSE /\ replace' = FALSE
                 /\ pc' = "download"
                 /\ UNCHANGED <<result, outcome, idx, err>>
  /\ UNCHANGED <<cfg, runs, strategy, files, world, to_download, file_hwm, local0,
                 store0, delivered, saveLog, getCalls, io>>

\* the watermark is not saved
AfterTransferNoSave == "finish"

\* what follows a complete file at the target path
AfterTransfer == IF cfg.hwm_type THEN "hwm_save" ELSE "finish"

\* connection.download_file(remote_file, target, replace) starts: it refuses
\* an existing target unless `replace`, then begins to write the target
DownloadStart ==
  /\ pc = "download"
  /\ LET t == DownloadTarget(Current)
     IN IF localfs[t] # Absent /\ ~replace
        THEN Fail("FileExistsError") /\ UNCHANGED localfs
        ELSE \E ok \in BOOLEAN :
               IF ok
               THEN /\ localfs' = [localfs EXCEPT ![t] = Partial]
                    /\ pc' = "downloading"
                    /\ UNCHANGED <<result, outcome, idx, replace>>
               ELSE Fail("DownloadError") /\ UNCHANGED localfs
  /\ UNCHANGED <<cfg, runs, strategy, files, remoteRoot, remote, localRoot, store,
                 to_download, file_hwm, err, local0, store0, delivered,
                 saveLog, getCalls, io>>

\* connection.download_file ends: the whole content is written, or it
\* raises and leaves what was written so far
DownloadFinish ==
  /\ pc = "downloading"
  /\ LET t == DownloadTarget(Current)
     IN \E ok \in BOOLEAN :
          IF ok
          THEN /\ localfs' = [localfs EXCEPT ![t] = CopyOf(Current.source)]
               /\ pc' = IF Current.temp = NoPath THEN AfterTransfer
                        ELSE IF replace /\ localfs[Current.target] # Absent
                        THEN "unlink"
                        ELSE "move"
               /\ delivered' = IF Current.temp = NoPath
                               THEN delivered \cup {idx + 1} ELSE delivered
               /\ UNCHANGED <<result, outcome, idx, replace>>
          ELSE Fail("DownloadError") /\ UNCHANGED <<localfs, delivered>>
  /\ UNCHANGED <<cfg, runs, strategy, files, remoteRoot, remote, localRoot, store,
                 to_download, file_hwm, err, local0, store0, saveLog,
                 getCalls, io>>

\* `if replace and local_file.exists(): local_file.unlink()`
Unlink ==
  /\ pc = "unlink"
  /\ localfs' = [localfs EXCEPT ![Current.target] = Absent]
  /\ pc' = "move"
  /\ UNCHANGED <<cfg, runs, strategy, files, remoteRoot, remote, localRoot, store,
                 loopvars, err, history>>

\* a copy in every case
RenamesNever(item) == FALSE

\* shutil.move renames when both paths are on one mount
Renames(item) == Mount(item.temp) = Mount(item.target)

\* shutil.move(tmp_file, local_file): a rename on one mount, else a copy
\* that starts here and ends in MoveFinish
Move ==
  /\ pc = "move"
  /\ \E ok \in BOOLEAN :
       IF ~ok
       THEN Fail("MoveError") /\ UNCHANGED <<localfs, delivered>>
       ELSE IF Renames(Current)
       THEN /\ localfs' = [localfs EXCEPT
                             ![Current.target] = localfs[Current.temp],
                             ![Current.temp] = Absent]
            /\ delivered' = delivered \cup {idx + 1}
            /\ pc' = AfterTransfer
            /\ UNCHANGED <<result, outcome, idx, replace>>
       ELSE /\ localfs' = [localfs EXCEPT ![Current.target] = Partial]
            /\ pc' = "moving"
            /\ UNCHANGED <<result, outcome, idx, replace, delivered>>
  /\ UNCHANGED <<cfg, runs, strategy, files, remoteRoot, remote, localRoot, store,
                 to_download, file_hwm, err, local0, store0, saveLog,
                 getCalls, io>>

\* the copy of shutil.move between mounts ends, and the temp file is removed
MoveFinish ==
  /\ pc = "moving"
  /\ \E ok \in BOOLEAN :
       IF ok
       THEN /\ localfs' = [localfs EXCEPT
                             ![Current.target] = localfs[Current.temp],
                             ![Current.temp] = Absent]
            /\ delivered' = delivered \cup {idx + 1}
            /\ pc' = AfterTransfer
            /\ UNCHANGED <<result, outcome, idx, replace>>
       ELSE Fail("MoveError") /\ UNCHANGED <<localfs, delivered>>
  /\ UNCHANGED <<cfg, runs, strategy, files, remoteRoot, remote, localRoot, store,
                 to_download, file_hwm, err, local0, store0, saveLog,
                 getCalls, io>>

\* update() returns the new value and leaves the object as it was
UpdateDiscarded(hwm, f) == hwm

\* the HWM is updated with every file of the run
UpdateWithAll(hwm, f) ==
  [hwm EXCEPT !.value = @ \cup {to_download[n].source :
                                  n \in 1..Len(to_download)}]

\* FileHWM.update(file): the value with the file added (in place)
Update(hwm, f) == [hwm EXCEPT !.value = @ \cup {f}]

\* a call of hwm_store.save, as logged
SaveCall(n, hwm, ok) == [candidate |-> n, value |-> hwm.value, ok |-> ok]

\* `file_hwm.update(remote_file); hwm_store.save(file_hwm)`
HwmSave ==
  /\ pc = "hwm_save"
  /\ file_hwm' = Update(file_hwm, Current.source)
  /\ io' = io \cup {"store"}
  /\ \E ok \in BOOLEAN :
       /\ saveLog' = Append(saveLog, SaveCall(idx + 1, file_hwm', ok))
       /\ IF ok
          THEN /\ store' = file_hwm'
               /\ pc' = "finish"
               /\ UNCHANGED <<result, outcome, idx, replace>>
          ELSE Fail("SaveError") /\ UNCHANGED store
  /\ UNCHANGED <<cfg, runs, strategy, files, remoteRoot, remote, localRoot, localfs,
                 to_download, err, local0, store0, delivered, getCalls>>

\* `if self.options.delete_source: remove_file(remote_file)`, then
\* result.successful.add(local_file)
FileFinish ==
  /\ pc = "finish"
  /\ \E ok \in BOOLEAN :
       IF cfg.delete_source /\ ~ok
       THEN Fail("RemoveError") /\ UNCHANGED remote
       ELSE /\ remote' = IF cfg.delete_source
                         THEN [remote EXCEPT ![Current.source] = FALSE]
                         ELSE remote
            /\ result' = [result EXCEPT
                            !.successful = @ \cup {Current.target}]
            /\ outcome' = Append(outcome, "successful")
            /\ idx' = idx + 1
            /\ replace' = FALSE
            /\ pc' = "loop"
  /\ UNCHANGED <<cfg, runs, strategy, files, remoteRoot, localRoot, localfs, store,
                 to_download, file_hwm, err, local0, store0, delivered,
                 saveLog, getCalls, io>>

\* run() returns without removing the temp directory
AfterLoopReturn(c) == "done"

\* `if current_temp_dir: self._remove_temp_dir(current_temp_dir)`
AfterLoop(c) == IF c.temp_path # NoPath THEN "remove_temp_dir" ELSE "done"

\* the loop is over: without a temp directory run() returns the result
LoopEnd ==
  /\ pc = "loop"
  /\ idx = Len(to_download)
  /\ pc' = AfterLoop(cfg)
  /\ UNCHANGED <<cfg, runs, strategy, files, world, loopvars, err, history>>

\* _remove_temp_dir: shutil.rmtree, whose failure is only logged
RemoveTempDir ==
  /\ pc = "remove_temp_dir"
  /\ \E ok \in BOOLEAN :
       localfs' = IF ok
                  THEN Rmtree(localfs, generate_temp_path(cfg.temp_path))
                  ELSE localfs
  /\ pc' = "done"
  /\ UNCHANGED <<cfg, runs, strategy, files, remoteRoot, remote, localRoot, store,
                 loopvars, err, history>>

Next ==
  \/ Run
  \/ CheckStrategy
  \/ CheckFiles
  \/ CheckLocalPath
  \/ ConnectionCheck
  \/ CheckSourcePath
  \/ ViewFiles
  \/ Resolve
  \/ DeleteAll
  \/ HwmProcessing
  \/ FileBegin
  \/ DownloadStart
  \/ DownloadFinish
  \/ Unlink
  \/ Move
  \/ MoveFinish
  \/ HwmSave
  \/ FileFinish
  \/ LoopEnd
  \/ RemoveTempDir

Spec == Init /\ [][Next]_vars

----------------------------------------------------------------------------
(* Runs one after another: the same FileDownloader, connection, local       *)
(* filesystem and HWM store; nothing else changes them between two runs.    *)

\* the run before the current one raised
RaisedRun == [pc |-> "raised", sources |-> {}, ended |-> "other",
              walked |-> FALSE]

\* How a run ended, in one word: every candidate successful; some skipped
\* and the others successful; or some failed or missing.
EndedAs(o) ==
  IF \A n \in 1..Len(o) : o[n] = "successful" THEN "successful"
  ELSE IF \A n \in 1..Len(o) : o[n] \in {"successful", "skipped"}
  THEN "skipped"
  ELSE "other"

\* run() is called again after it returned or raised. The temp directory of
\* a run is new (generate_temp_path), so the staging files start absent.
Rerun ==
  /\ pc \in {"done", "raised"}
  /\ prev' = IF pc = "raised" THEN RaisedRun
              ELSE [pc |-> pc,
                    sources |-> {to_download[n].source :
                                   n \in 1..Len(to_download)},
                    ended |-> EndedAs(outcome),
                    walked |-> "walk" \in io]
  /\ localfs' = IF cfg.temp_path # NoPath
                THEN Rmtree(localfs, generate_temp_path(cfg.temp_path))
                ELSE localfs
  /\ strategy' = NoStrategy
  /\ files' = NoFiles
  /\ file_hwm' = NoHWM
  /\ to_download' = << >>
  /\ idx' = 0
  /\ replace' = FALSE
  /\ result' = EmptyResult
  /\ pc' = "idle"
  /\ err' = NoError
  /\ local0' = localfs'
  /\ store0' = store
  /\ outcome' = << >>
  /\ delivered' = {}
  /\ saveLog' = << >>
  /\ getCalls' = 0
  /\ io' = {}
  /\ UNCHANGED <<cfg, apart, remoteRoot, remote, localRoot, store>>

\* The runs are followed for a downloader without temp_path and without
\* delete_source, in mode error, ignore or overwrite, whose local_path and
\* source_path are directories.
InitRuns ==
  /\ Init
  /\ cfg.temp_path = NoPath
  /\ ~cfg.delete_source
  /\ cfg.mode # "delete_all"
  /\ localRoot = "dir"
  /\ remoteRoot = "dir"

NextRuns ==
  \/ Run
  \/ CheckStrategy
  \/ CheckFiles
  \/ CheckLocalPath
  \/ ConnectionCheck
  \/ CheckSourcePath
  \/ ViewFiles
  \/ Resolve
  \/ HwmProcessing
  \/ FileBegin
  \/ DownloadStart
  \/ DownloadFinish
  \/ HwmSave
  \/ FileFinish
  \/ LoopEnd
  \/ Rerun

SpecRuns == InitRuns /\ [][NextRuns]_vars

----------------------------------------------------------------------------
(* A run that is interrupted: the process ends between two steps of run(),  *)
(* the connection, the local filesystem and the HWM store stay as they      *)
(* are, and run() is called again on a downloader of the same configuration.*)

\* the run before the current one was interrupted
InterruptedRun == [pc |-> "interrupted", sources |-> {}, ended |-> "other",
                   walked |-> FALSE]

\* The process ends in the middle of the first run, and run() is called
\* again. The temp directory of the new run is new (generate_temp_path).
Interrupt ==
  /\ prev = NoRun
  /\ pc \notin {"idle", "done", "raised"}
  /\ prev' = InterruptedRun
  /\ localfs' = IF cfg.temp_path # NoPath
                THEN Rmtree(localfs, generate_temp_path(cfg.temp_path))
                ELSE localfs
  /\ strategy' = NoStrategy
  /\ files' = NoFiles
  /\ file_hwm' = NoHWM
  /\ to_download' = << >>
  /\ idx' = 0
  /\ replace' = FALSE
  /\ result' = EmptyResult
  /\ pc' = "idle"
  /\ err' = NoError
  /\ local0' = localfs'
  /\ store0' = store
  /\ outcome' = << >>
  /\ delivered' = {}
  /\ saveLog' = << >>
  /\ getCalls' = 0
  /\ io' = {}
  /\ UNCHANGED <<cfg, apart, remoteRoot, remote, localRoot, store>>

\* run() is called without a file list
CheckStrategyNoList ==
  /\ CheckStrategy
  /\ files' = NoFiles

\* The interrupted run is followed for a downloader with source_path and
\* without delete_source, whose local_path and source_path are directories,
\* and whose runs get no file list.
InitCrash ==
  /\ Init
  /\ cfg.source_path = SourceRoot
  /\ ~cfg.delete_source
  /\ localRoot = "dir"
  /\ remoteRoot = "dir"

NextCrash ==
  \/ Run
  \/ CheckStrategyNoList
  \/ CheckFiles
  \/ CheckLocalPath
  \/ ConnectionCheck
  \/ CheckSourcePath
  \/ ViewFiles
  \/ Resolve
  \/ DeleteAll
  \/ HwmProcessing
  \/ FileBegin
  \/ DownloadStart
  \/ DownloadFinish
  \/ Unlink
  \/ Move
  \/ MoveFinish
  \/ HwmSave
  \/ FileFinish
  \/ LoopEnd
  \/ RemoveTempDir
  \/ Interrupt

\* every step of run() that can be taken is taken in the end: run() is a
\* sequential procedure over a finite list
SpecCrash == InitCrash /\ [][NextCrash]_vars /\ WF_vars(NextCrash)

----------------------------------------------------------------------------
(* DBReader: the normalisation of `columns`. A str is a sequence of         *)
(* characters; the characters told apart are a letter, the blank, the       *)
(* comma and the star.                                                      *)

MaxColumns == 3

Chars == {"a", " ", ",", "*"}

RECURSIVE StringsUpTo(_)
\* the strings of at most n characters
StringsUpTo(n) ==
  IF n = 0 THEN {<< >>}
  ELSE StringsUpTo(n - 1) \cup
       {Append(s, c) : s \in {t \in StringsUpTo(n - 1) : Len(t) = n - 1},
                       c \in Chars}

RECURSIVE ListsUpTo(_, _)
\* the lists of at most k strings with at most n characters in all
ListsUpTo(n, k) ==
  IF k = 0 THEN {<< >>}
  ELSE {<< >>} \cup
       UNION {{<<s>> \o l : l \in ListsUpTo(n - Len(s), k - 1)} :
              s \in StringsUpTo(n)}

\* the values passed as `columns`: a str or a list of str
ColumnArgs ==
  {[type |-> "str", items |-> <<s>>] : s \in StringsUpTo(MaxColumns)} \cup
  {[type |-> "list", items |-> l] : l \in ListsUpTo(MaxColumns, MaxColumns)}

RECURSIVE Split(_)
\* str.split(","): the pieces between the commas, at least one piece
Split(s) ==
  IF \A i \in 1..Len(s) : s[i] # ","
  THEN <<s>>
  ELSE LET i == CHOOSE k \in 1..Len(s) :
                  s[k] = "," /\ \A j \in 1..(k - 1) : s[j] # ","
       IN <<SubSeq(s, 1, i - 1)>> \o Split(SubSeq(s, i + 1, Len(s)))

RECURSIVE Strip(_)
\* str.strip(): without leading and trailing whitespace
Strip(s) ==
  IF s = << >> THEN s
  ELSE IF s[1] = " " THEN Strip(Tail(s))
  ELSE IF s[Len(s)] = " " THEN Strip(SubSeq(s, 1, Len(s) - 1))
  ELSE s

RECURSIVE CommaJoin(_)
\* ", ".join(items)
CommaJoin(items) ==
  IF items = << >> THEN << >>
  ELSE IF Len(items) = 1 THEN items[1]
  ELSE items[1] \o <<",", " ">> \o CommaJoin(Tail(items))

\* DBReader._handle_columns(columns)
HandleColumns(columns) ==
  LET split == IF columns.type = "str" THEN Split(columns.items[1])
               ELSE columns.items
      items == [i \in 1..Len(split) |-> Strip(split[i])]
  IN IF items = << >> \/ \E i \in 1..Len(items) : items[i] = <<"*">>
     THEN <<"*">>
     ELSE CommaJoin(items)

\* DBReader(columns=c): self.columns = self._handle_columns(columns)
DBReaderNew ==
  /\ reader.calls = 0
  /\ \E c \in ColumnArgs :
       reader' = [calls |-> 1, arg |-> c, columns |-> HandleColumns(c),
                  before |-> << >>]
  /\ UNCHANGED <<cfg, prev, other, target_dir, strategy, files, world,
                 loopvars, pc, err, history>>

\* a DBReader made from the columns of the first: DBReader(columns=r.columns)
DBReaderAgain ==
  /\ reader.calls = 1
  /\ LET c == [type |-> "str", items |-> <<reader.columns>>]
     IN reader' = [calls |-> 2, arg |-> c, columns |-> HandleColumns(c),
                   before |-> reader.columns]
  /\ UNCHANGED <<cfg, prev, other, target_dir, strategy, files, world,
                 loopvars, pc, err, history>>

\* no FileDownloader takes part: its fields and surroundings are fixed
InitNoDownloader ==
  /\ Init
  /\ cfg = [source_path |-> SourceRoot, local_path |-> LocalRoot,
            temp_path |-> NoPath, hwm_type |-> FALSE, mode |-> "error",
            delete_source |-> FALSE]
  /\ remoteRoot = "dir"
  /\ localRoot = "dir"
  /\ \A f \in RemoteFiles : remote[f]
  /\ \A p \in TargetFiles : localfs[p] = Absent

SpecReader == InitNoDownloader /\ [][DBReaderNew \/ DBReaderAgain]_vars

----------------------------------------------------------------------------
(* FileWriter: run(df) writes the rows of a dataframe below target_path,    *)
(* one file per row here, in the directory of the row's partition; what it  *)
(* does with a target_path that exists is chosen by Options.if_exists.      *)

\* the rows of the dataframe of the tests: an id and a str_value
Rows ==
  {[id |-> "1", str_value |-> "val1"], [id |-> "2", str_value |-> "val2"],
   [id |-> "3", str_value |-> "val2"], [id |-> "4", str_value |-> "val3"]}

\* FileWriter.Options
WriterOptions ==
  [if_exists : {"error", "skip_entire_directory", "append",
                "replace_overlapping_partitions", "replace_entire_directory"},
   partition_by : {"none", "id", "str_value"}]

\* the directory below target_path a row is written to: target_path itself,
\* or column=value
PartitionDir(col, row) ==
  IF col = "none" THEN << >> ELSE <<col, row[col]>>

\* the files run(df) writes
NewFiles(options, df) ==
  {[dir |-> PartitionDir(options.partition_by, r), row |-> r] : r \in df}

\* every run writes, whatever target_path holds
SkipsNever(options, dir) == FALSE

\* run(df) leaves an existing target_path alone and writes nothing
Skips(options, dir) ==
  options.if_exists = "skip_entire_directory" /\ dir.exists

\* every run adds its files to those target_path holds
KeptAll(options, old, new) == old

\* every run empties target_path before it writes
KeptNone(options, old, new) == {}

\* the files of target_path that are still there after run(df) has written
\* the files `new`
Kept(options, old, new) ==
  CASE options.if_exists = "replace_entire_directory" -> {}
    [] options.if_exists = "replace_overlapping_partitions" ->
         IF options.partition_by = "none" THEN {}
         ELSE {f \in old : \A g \in new : g.dir # f.dir}
    [] OTHER -> old

\* FileWriter.run(df)
FileWriterRun ==
  \* the tests call run() twice
  /\ Len(target_dir.runs) < 2
  /\ ~target_dir.raised
  /\ \E options \in WriterOptions, df \in SUBSET Rows :
       LET new == NewFiles(options, df)
           run == [options |-> options, df |-> df, before |-> target_dir.files]
       IN IF options.if_exists = "error" /\ target_dir.exists
          THEN target_dir' = [target_dir EXCEPT !.raised = TRUE]
          ELSE IF Skips(options, target_dir)
          THEN target_dir' = [target_dir EXCEPT !.runs = Append(@, run)]
          ELSE target_dir' =
                 [target_dir EXCEPT
                    !.exists = TRUE,
                    !.files = Kept(options, @, new) \cup new,
                    !.runs = Append(@, run)]
  /\ UNCHANGED <<cfg, prev, other, reader, strategy, files, world, loopvars,
                 pc, err, history>>

\* FileReader.run() on target_path: when there are partition directories,
\* the rows of the files in them, and an error when their columns differ;
\* else the rows of the files in target_path itself
Read(dir) ==
  LET parts == {f \in dir.files : f.dir # << >>}
  IN IF \E f, g \in parts : f.dir[1] # g.dir[1]
     THEN [error |-> "Conflicting partition column names detected",
           rows |-> {}]
     ELSE [error |-> "none",
           rows |-> {f.row : f \in (IF parts # {} THEN parts
                                    ELSE dir.files)}]

SpecWriter == InitNoDownloader /\ [][FileWriterRun]_vars

----------------------------------------------------------------------------
(* A store that holds an HWM whatever the downloader: the qualified name    *)
(* does not include hwm_type, so a downloader without hwm_type can find an  *)
(* HWM under its name that a downloader with hwm_type has saved. Followed   *)
(* without temp_path, delete_source and delete_all, for local_path a        *)
(* directory.                                                               *)

InitStores ==
  /\ InitAnyStore
  /\ cfg.temp_path = NoPath
  /\ ~cfg.delete_source
  /\ cfg.mode # "delete_all"
  /\ localRoot = "dir"

NextStores ==
  \/ Run
  \/ CheckStrategy
  \/ CheckFiles
  \/ CheckLocalPath
  \/ ConnectionCheck
  \/ CheckSourcePath
  \/ ViewFiles
  \/ Resolve
  \/ HwmProcessing
  \/ FileBegin
  \/ DownloadStart
  \/ DownloadFinish
  \/ HwmSave
  \/ FileFinish
  \/ LoopEnd

SpecStores == InitStores /\ [][NextStores]_vars

----------------------------------------------------------------------------
(* Two runs at once: next to the run followed step by step, a second       *)
(* FileDownloader with the same source_path on the same connection, hence   *)
(* the same HWM qualified name, runs in another process with a local_path   *)
(* of its own. Of that run the model keeps its accesses to the HWM store.   *)

\* the run followed step by step is between its call and its end
Active == pc \notin {"idle", "done", "raised"}

\* the other run's _hwm_processing: _get_hwm
OtherGetHWM ==
  /\ other.pc = "idle"
  /\ HWMTypeError(GetHWM(store).type) = "none"
  /\ other' = [other EXCEPT !.pc = "loop",
                            !.hwm = GetHWM(store),
                            !.first = (pc = "idle"),
                            !.overlap = Active]
  /\ UNCHANGED <<cfg, prev, reader, target_dir, strategy, files, world, loopvars, pc,
                 err, history>>

\* the other run's _download_file for a file f, after its transfer:
\* file_hwm.update, hwm_store.save, result.successful.add
OtherSave ==
  /\ other.pc = "loop"
  /\ \E f \in {FileA, FileB} \ other.successful :
       /\ remote[f]
       /\ other' = [other EXCEPT !.hwm = Update(other.hwm, f),
                                 !.successful = @ \cup {f}]
       /\ store' = other'.hwm
  /\ UNCHANGED <<cfg, prev, reader, target_dir, strategy, files, remoteRoot, remote,
                 localRoot, localfs, loopvars, pc, err, history>>

\* the other run returns
OtherReturn ==
  /\ other.pc = "loop"
  /\ other' = [other EXCEPT !.pc = "done",
                            !.overlap = @ \/ (other.first /\ pc # "idle")]
  /\ UNCHANGED <<cfg, prev, reader, target_dir, strategy, files, world, loopvars, pc,
                 err, history>>

\* The two runs are followed for downloaders with hwm_type in mode
\* overwrite, without temp_path and delete_source, whose local_path and
\* source_path are directories, and whose runs get no file list.
InitRace ==
  /\ Init
  /\ cfg.hwm_type
  /\ cfg.mode = "overwrite"
  /\ cfg.temp_path = NoPath
  /\ ~cfg.delete_source
  /\ localRoot = "dir"
  /\ remoteRoot = "dir"

NextRace ==
  \/ Run
  \/ CheckStrategyNoList
  \/ CheckFiles
  \/ CheckLocalPath
  \/ ConnectionCheck
  \/ CheckSourcePath
  \/ ViewFiles
  \/ Resolve
  \/ HwmProcessing
  \/ FileBegin
  \/ DownloadStart
  \/ DownloadFinish
  \/ HwmSave
  \/ FileFinish
  \/ LoopEnd
  \/ OtherGetHWM
  \/ OtherSave
  \/ OtherReturn

SpecRace == InitRace /\ [][NextRace]_vars

----------------------------------------------------------------------------
(* Vocabulary of the properties                                             *)

\* _download_file is between its conflict check and its end
InFile ==
  pc \in {"download", "downloading", "unlink", "move", "moving", "hwm_save",
          "finish"}

\* the new content of the current candidate is completely downloaded: into
\* its temp file, or without one into its target
Staged ==
  IF Current.temp # NoPath
  THEN localfs[Current.temp] = CopyOf(Current.source)
  ELSE localfs[Current.target] = CopyOf(Current.source)

\* the candidates that ended in `bucket`
Ended(bucket) == {n \in 1..Len(outcome) : outcome[n] = bucket}

\* the entries of result.failed, as paths
FailedPaths == {e.path : e \in result.failed}

----------------------------------------------------------------------------
\* C1: after a run() that returns, every candidate is recorded in the bucket
\* it ended in, the four buckets are pairwise disjoint, and the number of
\* recorded entries equals the number of candidates.
C1_Partition ==
  pc = "done" =>
    /\ Len(outcome) = Len(to_download)
    /\ \A n \in 1..Len(outcome) :
         /\ outcome[n] = "successful" =>
              to_download[n].target \in result.successful
         /\ outcome[n] = "failed" => to_download[n].source \in FailedPaths
         /\ outcome[n] = "skipped" =>
              to_download[n].source \in result.skipped
         /\ outcome[n] = "missing" =>
              to_download[n].source \in result.missing
    /\ result.successful \cap (FailedPaths \cup result.skipped
                                 \cup result.missing) = {}
    /\ FailedPaths \cap (result.skipped \cup result.missing) = {}
    /\ result.skipped \cap result.missing = {}
    /\ Cardinality(result.successful) + Cardinality(result.failed)
         + Cardinality(result.skipped) + Cardinality(result.missing)
       = Len(to_download)

\* C2: an exception raised by a step of the per-file processing never leaves
\* run(): the candidate is recorded in failed with the exception, and every
\* later candidate is processed.
C2_PerFileFailuresIsolated ==
  /\ pc = "raised" => err.site # "download_file" /\ idx = 0
  /\ \A n \in Ended("failed") :
       \E e \in result.failed :
         e.path = to_download[n].source /\ e.exception # "none"
  /\ pc = "done" => Len(outcome) = Len(to_download)

\* the candidates whose download into the temp file raised
StagingFailed ==
  {n \in Ended("failed") :
     /\ to_download[n].temp # NoPath
     /\ Failed(to_download[n].source, "DownloadError") \in result.failed}

\* another candidate of the run has the target path of candidate n
SharedTarget(n) ==
  \E m \in 1..Len(to_download) :
    m # n /\ to_download[m].target = to_download[n].target

C4_OldOrNewAlways ==
  cfg.temp_path # NoPath =>
    \A p \in TargetFiles :
      /\ localfs[p] # Partial
      /\ local0[p] = Old /\ cfg.mode # "delete_all"
           => localfs[p] = Old \/ localfs[p].kind = "copy"

\* C4 amended: with temp_path on the mount of local_path, in every state
\* every destination path holds its complete pre-run content, the complete
\* content of a source file, or no file (after the delete_all wipe, or
\* between the removal of the old file and the move of the staged one);
\* never a partially written file.
C4_NoPartialTarget ==
  cfg.temp_path # NoPath /\ Mount(cfg.temp_path) = Mount(cfg.local_path) =>
    \A p \in TargetFiles :
      \/ localfs[p] = Absent
      \/ localfs[p] = local0[p]
      \/ \E f \in RemoteFiles : localfs[p] = CopyOf(f)

C4_Witness ==
  /\ cfg.temp_path # NoPath
  /\ Mount(cfg.temp_path) = Mount(cfg.local_path)
  /\ pc = "moving" \/ pc = "hwm_save" \/ pc = "finish"
  /\ local0[Current.target] = Old
  /\ localfs[Current.target] = CopyOf(Current.source)

\* C5 as stated: in mode overwrite an existing destination file is deleted
\* or modified only after the new content is completely downloaded, with and
\* without temp_path.
C5_OverwriteAfterStagedAlways ==
  [][cfg.mode = "overwrite" /\ InFile
       => \A p \in TargetFiles :
            localfs[p] # Absent /\ localfs'[p] # localfs[p] => Staged]_vars

\* C5 amended: with temp_path, in mode overwrite an existing destination
\* file is deleted or modified only after the new content is completely
\* downloaded into the temp file.
C5_OverwriteAfterStaged ==
  [][cfg.mode = "overwrite" /\ InFile /\ cfg.temp_path # NoPath
       => \A p \in TargetFiles :
            localfs[p] # Absent /\ localfs'[p] # localfs[p] => Staged]_vars

C5_Witness ==
  /\ cfg.mode = "overwrite"
  /\ cfg.temp_path # NoPath
  /\ pc = "move"
  /\ replace
  /\ localfs[Current.target] = Absent
  /\ Staged

\* the calls of hwm_store.save made for candidate n
SavesFor(n) == {k \in 1..Len(saveLog) : saveLog[k].candidate = n}

\* C6: with hwm_type, for each candidate whose transfer succeeded, save was
\* invoked once before the next candidate started, with a value that covers
\* the candidate's source file; no save is left for later.
C6_SavePerTransferredFile ==
  cfg.hwm_type =>
    /\ \A n \in 1..idx :
         n \in delivered =>
           /\ Cardinality(SavesFor(n)) = 1
           /\ \A k \in SavesFor(n) : to_download[n].source \in saveLog[k].value
    /\ \A k \in 1..Len(saveLog) :
         /\ saveLog[k].candidate \in delivered
         /\ saveLog[k].candidate <= idx + 1

C6_Witness ==
  /\ cfg.hwm_type
  /\ idx = 2
  /\ delivered = {1, 2}
  /\ Len(saveLog) = 2
  /\ saveLog[1].ok

\* the files the store or the HWM in memory covers and did not cover when
\* run() was called
NewlyCovered ==
  (store.value \cup file_hwm.value) \ store0.value

\* C7 as stated: with hwm_type, a run advances the watermark only by files
\* that end the run in successful.
C7_CoversOnlySuccessful ==
  cfg.hwm_type /\ pc = "done" =>
    \A f \in store.value \ store0.value :
      \E n \in Ended("successful") : to_download[n].source = f

\* C7 amended: with hwm_type, a run advances the watermark (in memory and in
\* the store) only by files whose complete content it has placed at the
\* destination: none that ends skipped or missing, and of those that end in
\* failed only the ones whose save or remove_file raised after the transfer.
C7_CoversOnlyDelivered ==
  cfg.hwm_type =>
    \A f \in NewlyCovered :
      \E n \in delivered :
        /\ to_download[n].source = f
        /\ n <= Len(outcome) =>
             \/ outcome[n] = "successful"
             \/ /\ outcome[n] = "failed"
                /\ \E e \in result.failed :
                     /\ e.path = f
                     /\ e.exception \in {"SaveError", "RemoveError"}

C7_Witness ==
  /\ cfg.hwm_type
  /\ pc = "done"
  /\ \E n \in Ended("failed") : to_download[n].source \in store.value
  /\ \E n \in Ended("successful") :
       to_download[n].source \in store.value \ store0.value

\* C8: with delete_source, a source file is removed only after its complete
\* content is at the destination and (with hwm_type) the watermark that
\* covers it is saved; the sources of candidates that end in failed or
\* skipped are intact; every candidate in successful has its source removed.
C8_DeleteSourceLast ==
  /\ [](cfg.delete_source =>
          \A n \in 1..Len(outcome) :
            /\ outcome[n] \in {"failed", "skipped"} =>
                 remote[to_download[n].source]
            /\ outcome[n] = "successful" => ~remote[to_download[n].source])
  /\ [][\A f \in RemoteFiles :
          remote[f] /\ ~remote'[f] =>
            /\ cfg.delete_source
            /\ pc = "finish"
            /\ f = Current.source
            /\ localfs[Current.target] = CopyOf(f)
            /\ cfg.hwm_type => f \in store.value]_vars

C8_Witness ==
  /\ cfg.delete_source
  /\ cfg.hwm_type
  /\ pc = "done"
  /\ \E n \in Ended("successful") : ~remote[to_download[n].source]
  /\ \E n \in Ended("failed") : remote[to_download[n].source]

\* the strategy is one under which hwm_type cannot be used
Incompatible(s) == ~s.hwm \/ s.batch \/ s.offset

\* C9: with hwm_type, the strategy check raises ValueError exactly when the
\* current strategy is no HWM strategy, is a batch strategy or has an offset;
\* without hwm_type it never raises.
C9_StrategyCheck ==
  /\ pc = "raised" /\ err.site = "strategy" =>
       cfg.hwm_type /\ Incompatible(strategy) /\ err.kind = "ValueError"
  /\ strategy # NoStrategy /\ pc # "check_strategy"
       /\ ~(pc = "raised" /\ err.site = "strategy") =>
       ~(cfg.hwm_type /\ Incompatible(strategy))

C9_Witness ==
  /\ pc = "raised"
  /\ err.site = "strategy"
  /\ strategy = IncrementalBatchStrategy

\* the four checks of run(), in the order of the claim
Checks == <<"strategy", "files", "local_path", "source_path">>

\* check k is violated in the current state
Violated(k) ==
  CASE k = 1 -> cfg.hwm_type /\ Incompatible(strategy)
    [] k = 2 -> files = NoFiles /\ cfg.source_path = NoPath
    [] k = 3 -> localRoot = "file"
    [] k = 4 -> cfg.source_path # NoPath /\ remoteRoot # "dir"

\* the error kinds check k can raise
KindsOf(k) ==
  CASE k = 1 -> {StrategyError(c, s) : c \in Configs, s \in Strategies}
    [] k = 2 -> {FilesError(c, fl) : c \in Configs, fl \in {NoFiles, << >>}}
    [] k = 3 -> {LocalPathError(kind) : kind \in {"dir", "file", "absent"}}
    [] k = 4 -> {GetDirectoryError(kind) : kind \in {"dir", "file", "absent"}}

\* run() raised from one of the four checks, the k-th
RaisedBy(k) == pc = "raised" /\ err.site = Checks[k]

\* C10 as stated: the four checks are evaluated in order, the error raised
\* is that of the first violated one, and each check raises an error kind
\* that no other check raises.
C10_OrderAndDistinctKinds ==
  /\ \A k \in 1..4 :
       RaisedBy(k) =>
         /\ Violated(k)
         /\ \A j \in 1..(k - 1) : ~Violated(j)
         /\ \A j \in 1..4 : j # k => err.kind \notin KindsOf(j)
  /\ pc = "resolve" => \A k \in 1..4 : ~Violated(k)

\* C10 amended: the four checks are evaluated in order and the error raised
\* is that of the first violated one; the kinds are ValueError for (1) and
\* for (2), NotADirectoryError for (3), and DirectoryNotFoundError or
\* NotADirectoryError for (4).
C10_OrderOfChecks ==
  /\ \A k \in 1..4 :
       RaisedBy(k) =>
         /\ Violated(k)
         /\ \A j \in 1..(k - 1) : ~Violated(j)
         /\ err.kind \in
              CASE k \in {1, 2} -> {"ValueError"}
                [] k = 3 -> {"NotADirectoryError"}
                [] k = 4 -> {"DirectoryNotFoundError", "NotADirectoryError"}
  /\ pc = "resolve" => \A k \in 1..4 : ~Violated(k)

C10_Witness ==
  /\ RaisedBy(3)
  /\ Violated(4)

----------------------------------------------------------------------------
\* the checks whose error is a configuration error
ConfigErrorSites == {"strategy", "files", "validate_files"}

\* C11 as stated: every configuration error of run() is raised before any
\* I/O: local_path has not been looked at or created, the connection has not
\* been called and the HWM store has not been accessed.
C11_ConfigErrorsBeforeIO ==
  pc = "raised" /\ err.site \in ConfigErrorSites => io = {}

\* C11 amended: a run with an incompatible strategy, or with neither a file
\* list nor source_path, performs no I/O at all. The error for a malformed
\* explicit path is raised after local_path was created and the connection
\* was called, but before the HWM store is accessed, before the delete_all
\* wipe and before any file is transferred.
C11_ConfigErrorsBeforeTransfer ==
  /\ strategy # NoStrategy /\ Violated(1) => io = {}
  /\ Violated(2) => io = {}
  /\ pc = "raised" /\ err.site \in {"strategy", "files"} => io = {}
  /\ pc = "raised" /\ err.site = "validate_files" =>
       /\ err.kind = "ValueError"
       /\ "store" \notin io
       /\ localfs = local0
       /\ store = store0
       /\ outcome = << >>
       /\ delivered = {}

C11_Witness ==
  /\ pc = "raised"
  /\ err.site = "validate_files"
  /\ io = {"local_path", "connection"}
  /\ ValidateFiles(cfg, files).looked > 0

----------------------------------------------------------------------------
\* C12: a candidate whose source does not exist when its turn comes is
\* recorded in missing and in no other bucket; the step creates no local
\* file and does not touch the watermark, the source is never covered
\* because of this run, and the loop goes on to the next candidate.
C12_MissingRecorded ==
  /\ [](\A n \in Ended("missing") :
          /\ to_download[n].source \in result.missing
          /\ to_download[n].source \notin FailedPaths \cup result.skipped
          /\ to_download[n].target \in result.successful => SharedTarget(n)
          /\ to_download[n].source \notin NewlyCovered)
  /\ [](pc = "done" => Len(outcome) = Len(to_download))
  /\ [][pc = "loop" /\ idx < Len(to_download) /\ ~remote[Current.source] =>
          /\ outcome' = Append(outcome, "missing")
          /\ result' = [result EXCEPT !.missing = @ \cup {Current.source}]
          /\ localfs' = localfs
          /\ store' = store
          /\ file_hwm' = file_hwm
          /\ idx' = idx + 1
          /\ pc' = "loop"]_vars

C12_Witness ==
  /\ pc = "done"
  /\ outcome = <<"missing", "successful">>
  /\ cfg.hwm_type
  /\ cfg.temp_path # NoPath

----------------------------------------------------------------------------
\* the current candidate exists, get_file returned it, and its local_file
\* exists
Conflict ==
  /\ pc = "loop"
  /\ idx < Len(to_download)
  /\ remote[Current.source]
  /\ localfs[Current.target] # Absent
  /\ pc' # "raised"

\* C13: in mode error a candidate whose destination file exists is recorded
\* in failed with a FileExistsError; nothing is downloaded, the local files
\* are unchanged, and the loop goes on to the next candidate.
C13_ErrorModeConflict ==
  [][cfg.mode = "error" /\ Conflict =>
       /\ outcome' = Append(outcome, "failed")
       /\ result' = [result EXCEPT
                       !.failed = @ \cup {[path |-> Current.source,
                                           exception |-> "FileExistsError"]}]
       /\ localfs' = localfs
       /\ remote' = remote
       /\ store' = store
       /\ delivered' = delivered
       /\ idx' = idx + 1
       /\ pc' = "loop"]_vars

C13_Witness ==
  /\ cfg.mode = "error"
  /\ pc = "done"
  /\ outcome = <<"failed", "successful">>
  /\ local0[to_download[1].target] = Old
  /\ localfs[to_download[1].target] = Old
  /\ [path |-> to_download[1].source, exception |-> "FileExistsError"]
       \in result.failed

----------------------------------------------------------------------------
\* C14: in mode ignore a candidate whose destination file exists is recorded
\* in skipped; nothing is downloaded, the local files are unchanged, its
\* source is not deleted even with delete_source, and the watermark is not
\* advanced for it.
C14_IgnoreModeConflict ==
  /\ [](\A n \in Ended("skipped") :
          /\ to_download[n].source \in result.skipped
          /\ remote[to_download[n].source]
          /\ to_download[n].source \notin NewlyCovered)
  /\ [][cfg.mode = "ignore" /\ Conflict =>
          /\ outcome' = Append(outcome, "skipped")
          /\ result' = [result EXCEPT !.skipped = @ \cup {Current.source}]
          /\ localfs' = localfs
          /\ remote' = remote
          /\ store' = store
          /\ file_hwm' = file_hwm
          /\ delivered' = delivered
          /\ idx' = idx + 1
          /\ pc' = "loop"]_vars

C14_Witness ==
  /\ cfg.mode = "ignore"
  /\ cfg.delete_source
  /\ cfg.hwm_type
  /\ pc = "done"
  /\ outcome = <<"skipped", "successful">>
  /\ localfs[to_download[1].target] = Old

----------------------------------------------------------------------------
\* C15: in mode overwrite, after a run that returns, a candidate whose
\* destination file existed before the run and for which no step raised is
\* recorded in successful, and its destination file holds the content of
\* its source.
C15_OverwriteReplaces ==
  cfg.mode = "overwrite" /\ pc = "done" =>
    \A n \in 1..Len(to_download) :
      local0[to_download[n].target] = Old
        /\ outcome[n] \notin {"failed", "missing"} =>
          /\ outcome[n] = "successful"
          /\ to_download[n].target \in result.successful
          /\ localfs[to_download[n].target] = CopyOf(to_download[n].source)

----------------------------------------------------------------------------
\* a file that was below local_path before the run is still there
OldFileLeft == \E p \in TargetFiles : localfs[p] = Old

\* C16 as stated: in mode delete_all, after a run that returns no file from
\* before the run is left below local_path; the wipe happens once, before
\* the first transfer.
C16_WipedAfterAnyRun ==
  /\ cfg.mode = "delete_all" /\ pc = "done" => ~OldFileLeft
  /\ pc = "delete_all" =>
       idx = 0 /\ outcome = << >> /\ delivered = {} /\ localfs = local0

\* C16 amended: in mode delete_all, a run with at least one candidate leaves
\* no file from before the run below local_path from the wipe on; the wipe
\* happens once, before the first transfer. A run without candidates (an
\* empty file list, or nothing found below source_path) returns before the
\* wipe and leaves local_path as it was.
C16_WipedWhenCandidates ==
  /\ cfg.mode = "delete_all" /\ to_download # << >> /\ pc # "delete_all" =>
       ~OldFileLeft
  /\ cfg.mode = "delete_all" /\ to_download = << >> => localfs = local0
  /\ pc = "delete_all" =>
       idx = 0 /\ outcome = << >> /\ delivered = {} /\ localfs = local0

C16_Witness ==
  /\ cfg.mode = "delete_all"
  /\ pc = "done"
  /\ \E p, q \in TargetFiles :
       /\ local0[p] = Old
       /\ localfs[p] = Absent
       /\ localfs[q].kind = "copy"

----------------------------------------------------------------------------
\* C17: in mode delete_all, whenever run() raises, the files that were below
\* local_path before the run are still there.
C17_WipeAfterAllChecks ==
  cfg.mode = "delete_all" /\ pc = "raised" =>
    \A p \in TargetFiles : localfs[p] = local0[p]

----------------------------------------------------------------------------
(* Properties of runs one after another (SpecRuns)                          *)

\* the source files of the candidates of the current run
Sources == {to_download[n].source : n \in 1..Len(to_download)}

\* an earlier candidate of the run has the target path of candidate n
TargetTakenBefore(n) ==
  \E m \in 1..(n - 1) : to_download[m].target = to_download[n].target

\* the run has candidates, each with an existing source and with no file at
\* its destination when run() was called, and none ended failed or missing
CleanFirstRun ==
  /\ to_download # << >>
  /\ pc = "done"
  /\ \A n \in 1..Len(to_download) :
       /\ remote[to_download[n].source]
       /\ local0[to_download[n].target] = Absent
       /\ outcome[n] \in {"successful", "skipped"}

----------------------------------------------------------------------------
\* C19: over runs one after another the stored watermark never regresses:
\* no step takes a file out of it, and when a run ends it covers at least
\* what it covered when the run before it ended.
C19_StoredHWMNeverRegresses ==
  /\ [][store.value \subseteq store'.value]_vars
  /\ [](prev.pc # "none" /\ pc \in {"done", "raised"} =>
          store0.value \subseteq store.value)

C19_Witness ==
  /\ cfg.hwm_type
  /\ prev.pc = "done"
  /\ pc = "done"
  /\ store0.value # {}
  /\ store.value # store0.value

----------------------------------------------------------------------------
----------------------------------------------------------------------------
(* Candidate resolution                                                     *)

\* the source file an accepted path of the file list stands for
SourceOf(p) ==
  IF IsAbsolute(p) THEN p ELSE Join(cfg.source_path, p.parts)

\* the destination of an accepted path p: below local_path, the path p
\* relative to source_path; without source_path, the file name of p alone
Destination(p) ==
  IF cfg.source_path = NoPath
  THEN [ns |-> "local", abs |-> TRUE,
        parts |-> cfg.local_path.parts \o <<p.parts[Len(p.parts)]>>]
  ELSE IF IsAbsolute(p)
  THEN [ns |-> "local", abs |-> TRUE,
        parts |-> cfg.local_path.parts
                    \o SubSeq(p.parts, Len(cfg.source_path.parts) + 1,
                              Len(p.parts))]
  ELSE [ns |-> "local", abs |-> TRUE,
        parts |-> cfg.local_path.parts \o p.parts]

\* run() has accepted its files and goes on to the transfers
Accepted ==
  /\ pc \in {"resolve", "validate"}
  /\ pc' \in {"delete_all", "hwm_processing", "loop"}

----------------------------------------------------------------------------
\* p lies below the directory dir
Under(p, dir) ==
  /\ Len(p.parts) > Len(dir.parts)
  /\ SubSeq(p.parts, 1, Len(dir.parts)) = dir.parts

\* p is relative while no source_path is set, or absolute and not under
\* source_path
Malformed(p) ==
  IF cfg.source_path = NoPath THEN ~IsAbsolute(p)
  ELSE IsAbsolute(p) /\ ~Under(p, cfg.source_path)

\* the explicit file list of the run has a malformed path
HasMalformed ==
  /\ files # NoFiles
  /\ \E k \in 1..Len(files) : Malformed(files[k])

\* the steps of run() that come before _validate_files and can raise
BeforeValidation == {"local_path", "connection", "source_path"}

\* C22: a run whose explicit file list has a malformed path never returns
\* and never gets to the wipe or to a transfer: once the checks before it
\* have passed, _validate_files raises ValueError (or the connection raises
\* while it looks at a path listed before the malformed one), no file of the
\* list is transferred and the local files, the sources and the stored
\* watermark are as they were.
C22_MalformedPathStopsRun ==
  /\ [](HasMalformed =>
          /\ pc \in {"check_files", "check_local_path", "connection_check",
                      "check_source_path", "resolve", "raised"}
          /\ to_download = << >>
          /\ delivered = {}
          /\ outcome = << >>
          /\ saveLog = << >>
          /\ localfs = local0
          /\ store = store0
          /\ pc = "raised" =>
               \/ err.site \in BeforeValidation
               \/ err = Error("ConnectionError", "validate_io")
               \/ err = Error("ValueError", "validate_files"))
  /\ [][HasMalformed =>
          /\ pc = "resolve" => pc' = "raised"
          /\ remote' = remote
          /\ pc' = "raised" /\ err'.site = "validate_io" =>
               ~Malformed(files[1])]_vars

C22_Witness ==
  /\ pc = "raised"
  /\ err = Error("ValueError", "validate_files")
  /\ cfg.source_path = SourceRoot
  /\ cfg.mode = "delete_all"
  /\ files = <<FileA, FileC>>
  /\ remote[FileA]
  /\ local0[LocalPath(<<"local", "a">>)] = Old

----------------------------------------------------------------------------
\* run() is about to resolve the file list it was passed
ExplicitList == pc = "resolve" /\ files # NoFiles

\* the source files of the candidates after the step
SourcesAfter == {to_download'[n].source : n \in 1..Len(to_download')}

\* C23 as stated: with an explicit file list the source tree is not
\* enumerated and the store is not read to choose the candidates, which are
\* exactly the listed files; source_path changes nothing: the list is
\* accepted as it is without source_path (when all its paths are absolute).
C23_ListAloneDecides ==
  [][ExplicitList /\ files # << >>
       /\ ~(pc' = "raised" /\ err'.site = "validate_io") =>
       /\ "walk" \notin io'
       /\ getCalls' = getCalls
       /\ pc' # "raised" <=> \A k \in 1..Len(files) : IsAbsolute(files[k])
       /\ pc' # "raised" =>
            SourcesAfter = {files[k] : k \in 1..Len(files)}]_vars

\* C23 amended: with an explicit file list the source tree is not
\* enumerated and the store is not read to choose the candidates: when the
\* list is accepted the candidates are exactly the listed files, each once,
\* a relative path standing for source_path / path, and a file the stored
\* watermark covers is among them. source_path decides which lists are
\* accepted: with it a relative path is accepted and an absolute path
\* outside it is rejected, without it the reverse.
C23_ExplicitList ==
  [][ExplicitList =>
       /\ "walk" \notin io'
       /\ getCalls' = getCalls
       /\ store' = store
       /\ pc' = "raised" => HasMalformed \/ err'.site = "validate_io"
       /\ HasMalformed => pc' = "raised"
       /\ pc' # "raised" =>
            /\ SourcesAfter = {SourceOf(files[k]) : k \in 1..Len(files)}
            /\ Len(to_download') = Cardinality(SourcesAfter)]_vars

C23_Witness ==
  /\ "walk" \notin io
  /\ cfg.hwm_type
  /\ store0 = FileHWM({FileA})
  /\ pc = "done"
  /\ Len(to_download) = 2
  /\ to_download[1].source = FileA
  /\ to_download[2].source = FileB
  /\ outcome = <<"successful", "successful">>
  /\ delivered = {1, 2}

----------------------------------------------------------------------------
\* run() has passed its checks and has no file to download: the list it was
\* passed is empty, or view_files found nothing
NothingToDownload ==
  /\ pc \in {"resolve", "validate"}
  /\ files = << >>

----------------------------------------------------------------------------
\* no file is left in the temp directory of the run
StagingEmpty == \A p \in StagingFiles(cfg) : localfs[p] = Absent

\* C25: a run with temp_path that gets through its per-file loop removes the
\* temp directory of the run after the loop and before it returns; whether
\* the removal succeeds or raises, run() returns, with the result the loop
\* built, and the destination files are not touched.
C25_TempDirRemoved ==
  /\ [][pc = "remove_temp_dir" =>
          /\ idx = Len(to_download)
          /\ pc' = "done"
          /\ err' = NoError
          /\ result' = result
          /\ outcome' = outcome
          /\ \A p \in TargetFiles : localfs'[p] = localfs[p]
          /\ \/ localfs' = localfs
             \/ \A p \in StagingFiles(cfg) : localfs'[p] = Absent]_vars
  /\ [][pc # "done" /\ pc' = "done" /\ cfg.temp_path # NoPath
          /\ to_download # << >> => pc = "remove_temp_dir"]_vars

C25_Witness ==
  /\ pc = "done"
  /\ cfg.temp_path # NoPath
  /\ ~StagingEmpty
  /\ outcome = <<"failed", "successful">>
  /\ Cardinality(result.failed) = 1
  /\ Cardinality(result.successful) = 1

----------------------------------------------------------------------------
\* view_files(), called in the current state with a connection that
\* answers, returns: source_path is a directory and the stored HWM, if
\* hwm_type is set, is a FileHWM
ViewSucceeds ==
  /\ cfg.source_path # NoPath
  /\ remoteRoot = "dir"
  /\ cfg.hwm_type => store.type # "OtherHWM"

\* the files view_files() returns in the current state: the existing files
\* below source_path that the stored watermark does not cover
Viewed ==
  {f \in RemoteFiles :
     /\ remote[f]
     /\ Under(f, cfg.source_path)
     /\ cfg.hwm_type => f \notin store.value}

\* run() was called without a file list and raised from one of its checks
RunChecksRaised ==
  /\ pc = "raised"
  /\ files = NoFiles
  /\ err.site \in {"strategy", "local_path", "source_path", "get_hwm"}

\* C26 as stated: for a downloader with source_path, run() without a file
\* list takes as candidates exactly the files view_files() returns, and
\* view_files() succeeds exactly when run() passes its checks.
C26_ViewSucceedsIffRunPasses ==
  /\ [][pc = "resolve" /\ files = NoFiles /\ pc' = "validate" =>
          /\ ViewSucceeds
          /\ {files'[k] : k \in 1..Len(files')} = Viewed]_vars
  /\ [](cfg.source_path # NoPath /\ RunChecksRaised => ~ViewSucceeds)

\* C26 amended: run() without a file list takes as candidates exactly the
\* files view_files() returns in the same state (same filter, limit and
\* watermark filter: run() calls view_files()), each once. view_files()
\* checks only source_path and the class of the stored HWM: it succeeds
\* whenever run() gets to its candidates, and it fails when run() raises
\* from the source_path check or from the HWM class check; it does not
\* check the strategy, local_path or the connection, so it can succeed
\* where run() raises.
C26_ViewFilesIsRunsSelection ==
  /\ [][pc = "resolve" /\ files = NoFiles /\ pc' = "validate" =>
          /\ ViewSucceeds
          /\ {files'[k] : k \in 1..Len(files')} = Viewed
          /\ Len(files') = Cardinality(Viewed)
          /\ localfs' = localfs /\ store' = store /\ remote' = remote]_vars
  /\ [](RunChecksRaised /\ err.site \in {"source_path", "get_hwm"} =>
          ~ViewSucceeds)

C26_Witness ==
  /\ pc = "validate"
  /\ cfg.hwm_type
  /\ store = FileHWM({FileA})
  /\ remote[FileA]
  /\ files = <<FileB>>
  /\ Viewed = {FileB}

----------------------------------------------------------------------------
\* run() is in its per-file loop or past it
LoopStarted ==
  \/ pc = "loop"
  \/ InFile
  \/ pc = "remove_temp_dir"
  \/ pc = "done" /\ to_download # << >>

\* C27 as stated: a run reads the store once, before anything else it does
\* with the store, and every later access is a save that follows the
\* transfer of a file.
C27_StoreReadOnce ==
  /\ [](getCalls <= 1)
  /\ [][store' # store \/ saveLog' # saveLog =>
          pc = "hwm_save" /\ (idx + 1) \in delivered]_vars

\* C27 amended: a run with hwm_type reads the store before its first
\* transfer and never after: once in view_files for the watermark filter,
\* when no file list was passed, and once in _hwm_processing after the
\* candidates are validated; both reads see the store as it was when run()
\* was called, and the loop starts from that watermark. Every later access
\* is a save that follows the placement of a file at the destination.
C27_StoreReadBeforeLoop ==
  /\ [](getCalls > 0 => cfg.hwm_type)
  /\ [](cfg.hwm_type /\ LoopStarted =>
          getCalls = IF "walk" \in io THEN 2 ELSE 1)
  /\ [](cfg.hwm_type /\ pc = "loop" /\ idx = 0 =>
          file_hwm.value = store0.value /\ store = store0)
  /\ [][getCalls' # getCalls =>
          /\ getCalls' = getCalls + 1
          /\ ~LoopStarted
          /\ store = store0
          /\ store' = store
          /\ saveLog = << >>]_vars
  /\ [][store' # store \/ saveLog' # saveLog =>
          /\ pc = "hwm_save"
          /\ (idx + 1) \in delivered
          /\ getCalls' = getCalls]_vars

C27_Witness ==
  /\ cfg.hwm_type
  /\ getCalls = 2
  /\ pc = "done"
  /\ store0 = FileHWM({FileA})
  /\ Len(saveLog) = 1
  /\ saveLog[1].ok
  /\ store.value = {FileA, FileB}

----------------------------------------------------------------------------
\* the files whose content this run has placed at the destination and which
\* the stored watermark does not cover
Uncovered == {to_download[n].source : n \in delivered} \ store.value

\* the file that is at the destination while its save is still to come
InFlight == IF pc = "hwm_save" THEN {Current.source} ELSE {}

\* the files whose save raised, with no save that succeeded after it
SaveLost ==
  {to_download[saveLog[k].candidate].source :
     k \in {j \in 1..Len(saveLog) :
              /\ ~saveLog[j].ok
              /\ \A i \in (j + 1)..Len(saveLog) : ~saveLog[i].ok}}

\* C28 as stated: with hwm_type, in every state of a run at most one file
\* that the run has placed at the destination is not covered by the stored
\* watermark.
C28_AtMostOneUncovered ==
  cfg.hwm_type => Cardinality(Uncovered) <= 1

\* C28 amended: with hwm_type, in every state of a run the files that the
\* run has placed at the destination and that the stored watermark does not
\* cover are the in-flight file and the files whose save raised and that no
\* later successful save has covered: at most one as long as no save raised.
C28_UncoveredInFlightOrLost ==
  cfg.hwm_type =>
    /\ Uncovered \subseteq InFlight \cup SaveLost
    /\ (\A k \in 1..Len(saveLog) : saveLog[k].ok) =>
         Cardinality(Uncovered) <= 1

C28_Witness ==
  /\ cfg.hwm_type
  /\ pc = "hwm_save"
  /\ idx = 1
  /\ Len(saveLog) = 1
  /\ saveLog[1].ok
  /\ Uncovered = {Current.source}
  /\ to_download[1].source \in store.value \ store0.value

----------------------------------------------------------------------------
(* Properties of the run after an interrupted run (SpecCrash)               *)

\* the run has returned, and no step of it raised except for a destination
\* file that exists
ReturnedUnhindered ==
  /\ pc = "done"
  /\ \A e \in result.failed : e.exception = "FileExistsError"
  /\ result.missing = {}

\* every candidate of the run has a complete file at its destination
AllComplete ==
  \A n \in 1..Len(to_download) :
    localfs[to_download[n].target].kind \in {"copy", "old"}

StagedAtomically ==
  /\ cfg.temp_path # NoPath
  /\ Mount(cfg.temp_path) = Mount(cfg.local_path)

----------------------------------------------------------------------------
\* the file f was at its destination when run() was called while the stored
\* watermark did not cover it: the save that followed its transfer raised
LaggingFile(f) ==
  /\ Under(f, cfg.source_path)
  /\ local0[Destination(f)] = CopyOf(f)
  /\ f \notin store0.value

\* candidate n is such a file
Lagging(n) ==
  /\ LaggingFile(to_download[n].source)
  /\ to_download[n].target = Destination(to_download[n].source)

\* the exceptions recorded for candidate n
ExceptionsOf(n) ==
  {e.exception : e \in {x \in result.failed :
                           x.path = to_download[n].source}}

\* C30 as stated: a file that is at the destination while the stored
\* watermark lags is selected again by the next run without a file list,
\* and unless a step of that run raises for it, it ends in successful or
\* skipped, and the stored watermark covers it when the run has returned.
C30_SaveFailureHarmless ==
  cfg.hwm_type /\ "walk" \in io =>
    \A n \in 1..Len(outcome) :
      Lagging(n) /\ ExceptionsOf(n) \subseteq {"FileExistsError"} =>
        /\ outcome[n] \in {"successful", "skipped"}
        /\ pc = "done" => to_download[n].source \in store.value

\* C30 amended: such a file is still complete at the destination and is
\* selected again by the next run without a file list. What happens to it
\* depends on the mode: in mode overwrite it is transferred again and, if
\* it ends in successful, the stored watermark covers it; in mode ignore it
\* ends in skipped, the watermark is not advanced for it and does not cover
\* it; in mode error it ends in failed with FileExistsError and is not
\* covered either. In modes ignore and error the file is left as it is.
C30_LaggingFileByMode ==
  cfg.hwm_type /\ "walk" \in io =>
    /\ \A f \in RemoteFiles :
         LaggingFile(f) /\ (LoopStarted \/ pc = "done") =>
           f \in {to_download[n].source : n \in 1..Len(to_download)}
    /\ \A n \in 1..Len(outcome) :
         Lagging(n) =>
           CASE cfg.mode = "overwrite" ->
                  /\ outcome[n] \in {"successful", "failed"}
                  /\ "FileExistsError" \notin ExceptionsOf(n)
                  /\ outcome[n] = "successful" =>
                       to_download[n].source \in store.value
             [] cfg.mode = "ignore" ->
                  /\ outcome[n] = "skipped"
                  /\ to_download[n].source \notin store.value
                  /\ localfs[to_download[n].target]
                       = local0[to_download[n].target]
             [] cfg.mode = "error" ->
                  /\ outcome[n] = "failed"
                  /\ ExceptionsOf(n) = {"FileExistsError"}
                  /\ to_download[n].source \notin store.value
                  /\ localfs[to_download[n].target]
                       = local0[to_download[n].target]

C30_Witness ==
  /\ cfg.hwm_type
  /\ cfg.mode = "overwrite"
  /\ prev.pc = "done"
  /\ prev.walked
  /\ "walk" \in io
  /\ pc = "done"
  /\ \E n \in 1..Len(outcome) :
       /\ Lagging(n)
       /\ outcome[n] = "successful"
       /\ to_download[n].source \in store.value

----------------------------------------------------------------------------
(* Properties of two runs at once (SpecRace)                                *)

\* the files one of the two runs has recorded in successful
RecordedSuccessful ==
  {to_download[n].source : n \in Ended("successful")} \cup other.successful

\* both runs were active at the same time
Overlapped ==
  \/ other.overlap
  \/ other.pc = "loop" /\ other.first /\ pc # "idle"

\* the stored watermark does not cover a file recorded in successful
LostUpdate == \E f \in RecordedSuccessful : f \notin store.value

\* C31: as long as the two runs against one watermark name are not active
\* at the same time, the stored watermark covers every file that either of
\* them has recorded in successful; a lost update needs two runs that
\* overlap (and the witness is such a state, after both have returned).
C31_LostUpdateOnlyWhenOverlapped ==
  LostUpdate => Overlapped

C31_Witness ==
  /\ pc = "done"
  /\ other.pc = "done"
  /\ Overlapped
  /\ other.successful # {}
  /\ Ended("successful") # {}
  /\ LostUpdate

----------------------------------------------------------------------------
(* Properties of the watermark and of failed candidates (Spec)              *)

\* the files whose complete content this run has placed at their destination
PlacedByRun == {to_download[n].source : n \in delivered}

\* C35: with hwm_type, every file the stored watermark covers was covered
\* when run() was called, or its complete content has been placed at the
\* destination by this run: the store never runs ahead of the transfers.
C35_StoredCoversOnlyPlaced ==
  cfg.hwm_type => store.value \subseteq store0.value \cup PlacedByRun

C35_Witness ==
  /\ cfg.hwm_type
  /\ InFile
  /\ store0.value # {}
  /\ store.value \ store0.value # {}
  /\ Len(saveLog) = 1

\* the failure recorded for candidate n came before anything was written to
\* its destination path: the conflict of mode error, or a download into the
\* temp file that raised
FailedBeforeWrite(n) ==
  ExceptionsOf(n) \subseteq
    {"FileExistsError"} \cup
      (IF to_download[n].temp # NoPath THEN {"DownloadError"} ELSE {})

\* C36 as stated (read without the delete_all wipe and without candidates
\* that share a destination path): for every candidate recorded in failed,
\* the destination path holds what it held before the run and the source
\* file has not been deleted.
C36_FailedLeavesNoTrace ==
  \A n \in Ended("failed") :
    ~SharedTarget(n) /\ cfg.mode # "delete_all" =>
      /\ localfs[to_download[n].target] = local0[to_download[n].target]
      /\ remote[to_download[n].source]

\* C36 amended: for every candidate recorded in failed the source file has
\* not been deleted; the destination path holds what it held before the run
\* when the failure came before any write to it (the conflict of mode error,
\* a failed download into the temp file), the delete_all wipe and candidates
\* with the same destination path apart.
C36_FailedBeforeWriteLeavesNoTrace ==
  \A n \in Ended("failed") :
    /\ remote[to_download[n].source]
    /\ FailedBeforeWrite(n) /\ ~SharedTarget(n) /\ cfg.mode # "delete_all" =>
         localfs[to_download[n].target] = local0[to_download[n].target]

C36_Witness ==
  /\ pc = "done"
  /\ cfg.delete_source
  /\ cfg.mode = "overwrite"
  /\ \E n \in Ended("failed") :
       /\ FailedBeforeWrite(n)
       /\ ~SharedTarget(n)
       /\ local0[to_download[n].target] = Old
       /\ localfs[to_download[n].target] = Old
       /\ remote[to_download[n].source]
  /\ \E m \in Ended("successful") : ~remote[to_download[m].source]

----------------------------------------------------------------------------
(* Properties of a downloader without hwm_type (SpecStores)                 *)

\* the existing files below source_path
AllBelowSource ==
  {f \in RemoteFiles : remote[f] /\ Under(f, cfg.source_path)}

\* C37: with hwm_type unset, whatever the current strategy and whatever the
\* store holds under the downloader's name, run() and view_files() make no
\* call of get or save, leave the store as it is, raise neither from the
\* strategy check nor from the check of the stored HWM, and view_files
\* yields every existing file below source_path, covered by a stored
\* watermark or not.
C37_NoWatermarkWithoutHwmType ==
  ~cfg.hwm_type =>
    /\ getCalls = 0
    /\ saveLog = << >>
    /\ "store" \notin io
    /\ store = store0
    /\ file_hwm = NoHWM
    /\ ~(pc = "raised" /\ err.site \in {"strategy", "get_hwm"})
    /\ pc = "validate" => {files[k] : k \in 1..Len(files)} = AllBelowSource

C37_Witness ==
  /\ ~cfg.hwm_type
  /\ pc = "validate"
  /\ strategy = IncrementalBatchStrategy
  /\ store = FileHWM({FileA})
  /\ \E k \in 1..Len(files) : files[k] = FileA

----------------------------------------------------------------------------
(* Properties of DBReader's columns (SpecReader)                            *)

\* the names given as `columns`: the items of a list, the pieces of a str
GivenNames(arg) ==
  IF arg.type = "str" THEN Split(arg.items[1]) ELSE arg.items

\* C38: the columns a DBReader keeps are "*" when the given columns are
\* empty (the empty list, the empty string) or one of the given names is
\* "*"; otherwise they are the given names, stripped of surrounding
\* whitespace, in their order, joined by ", "; and normalising the kept
\* columns again gives the same string.
C38_ColumnsNormalised ==
  reader.calls > 0 =>
    LET names == GivenNames(reader.arg)
        empty == reader.arg.items = << >> \/ reader.arg.items = << << >> >>
        star == \E i \in 1..Len(names) : Strip(names[i]) = <<"*">>
    IN /\ reader.columns =
            IF empty \/ star THEN <<"*">>
            ELSE CommaJoin([i \in 1..Len(names) |-> Strip(names[i])])
       /\ reader.calls = 2 => reader.columns = reader.before

----------------------------------------------------------------------------
(* Properties of FileWriter (SpecWriter): two runs on a target_path that    *)
(* did not exist before the first                                           *)

====
